---- MODULE Spec2Model ----
(***************************************************************************)
(* merge_join_course_forums (openedx/contrib/stanford/data_forums.py):     *)
(* the three-way merge of the per-day aggregate records of threads,        *)
(* responses and comments into one chronological report.                   *)
(*                                                                         *)
(* Indices are 0-based as in the source; the record a Python index i       *)
(* reads is element i + 1 of the TLA+ sequence.                            *)
(***************************************************************************)
EXTENDS Integers, Sequences, FiniteSets, Bags

VARIABLES threads, responses, comments, data, t_index, r_index, c_index,
          pc, err, picks

vars == <<threads, responses, comments, data, t_index, r_index, c_index,
          pc, err, picks>>

(***************************************************************************)
(* Bounds of the model.                                                    *)
(***************************************************************************)
\* The three input streams hold at most MaxTotal records together.
MaxTotal == 3

(***************************************************************************)
(* datetime.date, as the source uses it: the constructor                   *)
(* date(year, month, day), date.max and the comparison <=.                 *)
(***************************************************************************)
MINYEAR == 1
MAXYEAR == 9999

IsLeap(y) == y % 4 = 0 /\ (y % 100 # 0 \/ y % 400 = 0)

DaysInMonth(y, m) ==
    IF m = 2 THEN (IF IsLeap(y) THEN 29 ELSE 28)
    ELSE IF m \in {4, 6, 9, 11} THEN 30 ELSE 31

\* date(y, m, d) raises ValueError unless this holds.
ValidDate(y, m, d) ==
    /\ y \in MINYEAR..MAXYEAR
    /\ m \in 1..12
    /\ d \in 1..DaysInMonth(y, m)

\* date.max
date_max == <<MAXYEAR, 12, 31>>

\* a <= b on dates: year, then month, then day.
DateLE(a, b) ==
    \/ a[1] < b[1]
    \/ a[1] = b[1] /\ a[2] < b[2]
    \/ a[1] = b[1] /\ a[2] = b[2] /\ a[3] <= b[3]

(***************************************************************************)
(* The records the aggregation query yields: an _id of year, month, day    *)
(* and type, and the metrics of the day.  Threads carry the type           *)
(* "CommentThread"; responses and comments both carry "Comment".           *)
(***************************************************************************)
\* The (year, month, day) triples input records are drawn from: ordinary
\* days, a leap day, date.max, and triples that are no calendar date.
DateKeys ==
    { <<2020, 2, 29>>, <<2021, 1, 1>>, <<2021, 2, 1>>, <<9999, 12, 31>>,
      <<2021, 2, 29>>, <<2021, 4, 31>>, <<10000, 1, 1>> }

\* The accumulators of a group: posts counts its documents (at least one),
\* net_points, up_votes and down_votes sum their votes.  A day with one
\* unvoted document, and a day with two documents voted down on balance.
Metrics ==
    { [posts |-> 1, net_points |-> 0, up_votes |-> 0, down_votes |-> 0],
      [posts |-> 2, net_points |-> -1, up_votes |-> 1, down_votes |-> 2] }

Record(k, type, m) ==
    [_id |-> [year |-> k[1], month |-> k[2], day |-> k[3], type |-> type],
     posts |-> m.posts,
     net_points |-> m.net_points,
     up_votes |-> m.up_votes,
     down_votes |-> m.down_votes]

ThreadRecords == { Record(k, "CommentThread", m) : k \in DateKeys, m \in Metrics }
CommentRecords == { Record(k, "Comment", m) : k \in DateKeys, m \in Metrics }

\* (year, month, day) of a record, as the source reads it from rec['_id'].
KeyOf(rec) == <<rec._id.year, rec._id.month, rec._id.day>>

\* DateRaises with the day of the month checked against 31 only.
DateRaises_DayNotChecked(rec) ==
    ~(/\ rec._id.year \in MINYEAR..MAXYEAR
      /\ rec._id.month \in 1..12
      /\ rec._id.day \in 1..31)

\* date(...) on the record raises ValueError.
DateRaises(rec) == ~ValidDate(rec._id.year, rec._id.month, rec._id.day)

(***************************************************************************)
(* One iteration of the while loop.                                        *)
(***************************************************************************)
\* The loop condition.
LoopCond ==
    \/ t_index < Len(threads)
    \/ r_index < Len(responses)
    \/ c_index < Len(comments)

\* "checking out of bounds": the date of the head of a stream, or date.max.
HeadDate(stream, index) ==
    IF index = Len(stream) THEN date_max ELSE KeyOf(stream[index + 1])

thread_date == HeadDate(threads, t_index)
response_date == HeadDate(responses, r_index)
comment_date == HeadDate(comments, c_index)

\* HeadRaises with an order check added: the iteration also raises when the
\* head of a stream is dated before the record that precedes it.
HeadRaises_OrderChecked ==
    \/ t_index < Len(threads) /\ DateRaises(threads[t_index + 1])
    \/ r_index < Len(responses) /\ DateRaises(responses[r_index + 1])
    \/ c_index < Len(comments) /\ DateRaises(comments[c_index + 1])
    \/ /\ 0 < t_index /\ t_index < Len(threads)
       /\ ~DateLE(KeyOf(threads[t_index]), KeyOf(threads[t_index + 1]))
    \/ /\ 0 < r_index /\ r_index < Len(responses)
       /\ ~DateLE(KeyOf(responses[r_index]), KeyOf(responses[r_index + 1]))
    \/ /\ 0 < c_index /\ c_index < Len(comments)
       /\ ~DateLE(KeyOf(comments[c_index]), KeyOf(comments[c_index + 1]))

\* One of the three date(...) calls of the iteration raises.
HeadRaises ==
    \/ t_index < Len(threads) /\ DateRaises(threads[t_index + 1])
    \/ r_index < Len(responses) /\ DateRaises(responses[r_index + 1])
    \/ c_index < Len(comments) /\ DateRaises(comments[c_index + 1])

\* Selected with the response test made before the thread test.
Selected_ResponseFirst ==
    IF DateLE(response_date, thread_date) /\ DateLE(response_date, comment_date)
    THEN "response"
    ELSE IF DateLE(thread_date, comment_date)
            /\ DateLE(thread_date, response_date)
         THEN "thread"
         ELSE "comment"

\* The branch of the if / elif / else the iteration takes.
Selected ==
    IF DateLE(thread_date, comment_date) /\ DateLE(thread_date, response_date)
    THEN "thread"
    ELSE IF DateLE(response_date, thread_date)
            /\ DateLE(response_date, comment_date)
         THEN "response"
         ELSE "comment"

\* The stream a branch indexes has no element at its index.
Exhausted(branch) ==
    \/ branch = "thread" /\ t_index = Len(threads)
    \/ branch = "response" /\ r_index = Len(responses)
    \/ branch = "comment" /\ c_index = Len(comments)

InLoop == pc = "loop" /\ LoopCond

Init ==
    /\ \E nt \in 0..MaxTotal :
         \E nr \in 0..(MaxTotal - nt) :
           \E nc \in 0..(MaxTotal - nt - nr) :
             /\ threads \in [1..nt -> ThreadRecords]
             /\ responses \in [1..nr -> CommentRecords]
             /\ comments \in [1..nc -> CommentRecords]
    /\ data = <<>>
    /\ t_index = 0
    /\ r_index = 0
    /\ c_index = 0
    /\ pc = "loop"
    /\ err = "none"
    /\ picks = <<>>

\* date(...) raises ValueError; the exception leaves the function.
RaiseValueError ==
    /\ InLoop
    /\ HeadRaises
    /\ pc' = "error"
    /\ err' = "ValueError"
    /\ UNCHANGED <<threads, responses, comments, data, t_index, r_index,
                   c_index, picks>>

\* The branch taken indexes its list at len(list): IndexError.
RaiseIndexError ==
    /\ InLoop
    /\ ~HeadRaises
    /\ Exhausted(Selected)
    /\ pc' = "error"
    /\ err' = "IndexError"
    /\ UNCHANGED <<threads, responses, comments, data, t_index, r_index,
                   c_index, picks>>

\* AppendThread with the append left out.
AppendThread_NoAppend ==
    /\ InLoop
    /\ ~HeadRaises
    /\ Selected = "thread"
    /\ t_index < Len(threads)
    /\ t_index' = t_index + 1
    /\ picks' = Append(picks, "thread")
    /\ UNCHANGED <<threads, responses, comments, data, r_index, c_index,
                   pc, err>>

AppendThread ==
    /\ InLoop
    /\ ~HeadRaises
    /\ Selected = "thread"
    /\ t_index < Len(threads)
    /\ data' = Append(data, threads[t_index + 1])
    /\ t_index' = t_index + 1
    /\ picks' = Append(picks, "thread")
    /\ UNCHANGED <<threads, responses, comments, r_index, c_index, pc, err>>

AppendResponse ==
    /\ InLoop
    /\ ~HeadRaises
    /\ Selected = "response"
    /\ r_index < Len(responses)
    /\ data' = Append(data, responses[r_index + 1])
    /\ r_index' = r_index + 1
    /\ picks' = Append(picks, "response")
    /\ UNCHANGED <<threads, responses, comments, t_index, c_index, pc, err>>

\* AppendComment appending comments[0] whatever c_index is.
AppendComment_FirstRecord ==
    /\ InLoop
    /\ ~HeadRaises
    /\ Selected = "comment"
    /\ c_index < Len(comments)
    /\ data' = Append(data, comments[1])
    /\ c_index' = c_index + 1
    /\ picks' = Append(picks, "comment")
    /\ UNCHANGED <<threads, responses, comments, t_index, r_index, pc, err>>

AppendComment ==
    /\ InLoop
    /\ ~HeadRaises
    /\ Selected = "comment"
    /\ c_index < Len(comments)
    /\ data' = Append(data, comments[c_index + 1])
    /\ c_index' = c_index + 1
    /\ picks' = Append(picks, "comment")
    /\ UNCHANGED <<threads, responses, comments, t_index, r_index, pc, err>>

\* The loop condition is false: return data.
Return ==
    /\ pc = "loop"
    /\ ~LoopCond
    /\ pc' = "done"
    /\ UNCHANGED <<threads, responses, comments, data, t_index, r_index,
                   c_index, err, picks>>

Next ==
    \/ RaiseValueError
    \/ RaiseIndexError
    \/ AppendThread
    \/ AppendResponse
    \/ AppendComment
    \/ Return

Spec == Init /\ [][Next]_vars

(***************************************************************************)
(* Vocabulary of the properties.                                           *)
(***************************************************************************)
ValidRecord(rec) == ValidDate(rec._id.year, rec._id.month, rec._id.day)

ValidStream(s) == \A i \in 1..Len(s) : ValidRecord(s[i])

\* Every record of the three inputs carries a valid calendar date.
AllValid == ValidStream(threads) /\ ValidStream(responses) /\ ValidStream(comments)

\* The dates of a sequence of records never decrease.
NonDecreasing(s) ==
    \A i \in 1..(Len(s) - 1) : DateLE(KeyOf(s[i]), KeyOf(s[i + 1]))

InputsSorted ==
    NonDecreasing(threads) /\ NonDecreasing(responses) /\ NonDecreasing(comments)

Total == Len(threads) + Len(responses) + Len(comments)

Returned == pc = "done"
Failed == pc = "error"

Range(s) == { s[i] : i \in 1..Len(s) }

\* The multiset of the elements of a sequence.
BagOf(s) == [x \in Range(s) |-> Cardinality({ i \in 1..Len(s) : s[i] = x })]

\* Thread before Response before Comment.
Rank(branch) ==
    IF branch = "thread" THEN 1 ELSE IF branch = "response" THEN 2 ELSE 3

\* The records of d that the branch k appended, in the order of d.
RECURSIVE Restrict(_, _, _)
Restrict(d, p, k) ==
    IF Len(d) = 0 THEN <<>>
    ELSE IF Head(p) = k
         THEN <<Head(d)>> \o Restrict(Tail(d), Tail(p), k)
         ELSE Restrict(Tail(d), Tail(p), k)

\* Records of the same date are in the order Thread, Response, Comment.
TieOrder ==
    \A i \in 1..Len(data) : \A j \in 1..Len(data) :
        (i < j /\ KeyOf(data[i]) = KeyOf(data[j]))
            => Rank(picks[i]) <= Rank(picks[j])

Prefix(s, n) == SubSeq(s, 1, n)

(***************************************************************************)
(* What holds of every run that returns, sorted input or not, needed to    *)
(* read the failures below: a run that returns has emitted every record,   *)
(* and its output is ordered when the inputs were.  The claims C1, C3, C6  *)
(* and C7 fail only on the runs that end in the IndexError of C5.          *)
(***************************************************************************)
ReturnedRuns ==
    Returned
        => /\ AllValid
           /\ Len(data) = Total
           /\ t_index = Len(threads)
           /\ r_index = Len(responses)
           /\ c_index = Len(comments)
           /\ InputsSorted => NonDecreasing(data)

(***************************************************************************)
(* C1.  Global ordering: for three streams of valid calendar dates, each   *)
(* sorted non-decreasing, the merge returns (it does not fail) and the     *)
(* sequence it returns has non-decreasing dates.                           *)
(***************************************************************************)
C1_GlobalOrdering ==
    (AllValid /\ InputsSorted)
        => /\ ~Failed
           /\ Returned => NonDecreasing(data)

\* Scenario B of the specification: T2 = 2021-02-01, R1 = C1 = 2021-01-01
\* gives R1, C1, T2.
C2_ScenarioB ==
    ( /\ Returned
      /\ Len(threads) = 1 /\ KeyOf(threads[1]) = <<2021, 2, 1>>
      /\ Len(responses) = 1 /\ KeyOf(responses[1]) = <<2021, 1, 1>>
      /\ Len(comments) = 1 /\ KeyOf(comments[1]) = <<2021, 1, 1>> )
        => /\ picks = <<"response", "comment", "thread">>
           /\ data = <<responses[1], comments[1], threads[1]>>

(***************************************************************************)
(* C2.  Tie-break: for sorted input streams, in every output the merge     *)
(* returns all the input records are present and records of the same date  *)
(* are in the order Thread, Response, Comment, whatever the lengths of     *)
(* the streams; the records emitted so far are in that order in every      *)
(* state of the loop as well.                                              *)
(***************************************************************************)
C2_TieBreak ==
    /\ InputsSorted
         => /\ TieOrder
            /\ Returned => Len(data) = Total
    /\ C2_ScenarioB

\* A returned report with the same date in all three kinds, in the order
\* Thread, Response, Comment, the response and the comment of different
\* metrics.
C2_Witness ==
    /\ Returned
    /\ InputsSorted
    /\ Len(data) = 3
    /\ KeyOf(data[1]) = KeyOf(data[2])
    /\ KeyOf(data[1]) = KeyOf(data[3])
    /\ picks = <<"thread", "response", "comment">>
    /\ data[2] # data[3]

(***************************************************************************)
(* C3.  Length conservation: for inputs of valid calendar dates the merge  *)
(* returns a sequence of len(threads) + len(responses) + len(comments)     *)
(* records.                                                                *)
(***************************************************************************)
C3_LengthConservation ==
    AllValid
        => /\ ~Failed
           /\ Returned => Len(data) = Total

(***************************************************************************)
(* C4.  No loss, no duplication: the multiset of the records the merge     *)
(* returns is the multiset union of the three input streams, so every      *)
(* input record is in the output exactly once, as it was, and nothing      *)
(* else is.                                                                *)
(***************************************************************************)
C4_NoLossNoDuplication ==
    Returned
        => BagOf(data) = BagOf(threads) (+) BagOf(responses) (+) BagOf(comments)

\* A returned report of all three kinds in which one record occurs twice
\* (a response and a comment of the same day and the same metrics are
\* equal records).
C4_Witness ==
    /\ Returned
    /\ Len(threads) > 0
    /\ Len(responses) > 0
    /\ Len(comments) > 0
    /\ \E i \in 1..Len(data) : \E j \in 1..Len(data) : i < j /\ data[i] = data[j]

(***************************************************************************)
(* C5.  An exhausted cursor is never selected: for inputs of valid         *)
(* calendar dates, date.max among them, the branch an iteration takes      *)
(* reads a stream whose index is below its length: no iteration indexes a  *)
(* list at its length, which is the IndexError.                            *)
(***************************************************************************)
C5_ExhaustedNeverSelected == AllValid => err # "IndexError"

(***************************************************************************)
(* C6.  Identity on empty inputs: with two of the three streams empty and  *)
(* the third of valid calendar dates, the merge returns the third stream   *)
(* unchanged, whichever kind it is; three empty streams give the empty     *)
(* sequence.                                                               *)
(***************************************************************************)
C6_IdentityOnEmpty ==
    AllValid
        => /\ (Len(responses) = 0 /\ Len(comments) = 0)
                => (~Failed /\ (Returned => data = threads))
           /\ (Len(threads) = 0 /\ Len(comments) = 0)
                => (~Failed /\ (Returned => data = responses))
           /\ (Len(threads) = 0 /\ Len(responses) = 0)
                => (~Failed /\ (Returned => data = comments))

(***************************************************************************)
(* C7.  Termination: for streams of valid calendar dates the loop stops    *)
(* exactly when all three cursors are exhausted, never while a stream      *)
(* still holds a record that was not emitted; each iteration made so far   *)
(* advanced exactly one index.                                             *)
(***************************************************************************)
C7_StopsWhenExhausted ==
    AllValid
        => /\ pc # "loop"
                => /\ t_index = Len(threads)
                   /\ r_index = Len(responses)
                   /\ c_index = Len(comments)
           /\ Len(picks) = t_index + r_index + c_index

(***************************************************************************)
(* C8.  An invalid date aborts the merge: if any record of any stream      *)
(* carries a (year, month, day) that is no calendar date, the merge never  *)
(* returns (while it runs the loop condition holds, so the next step is    *)
(* another iteration or the exception), and no record with an invalid      *)
(* date is ever appended to data.                                          *)
(***************************************************************************)
C8_InvalidDateAborts ==
    /\ \A i \in 1..Len(data) : ValidRecord(data[i])
    /\ ~AllValid
         => /\ ~Returned
            /\ pc = "loop" => LoopCond
            /\ Failed => err \in {"ValueError", "IndexError"}

\* An invalid record behind valid ones: the merge emitted records, then failed.
C8_Witness ==
    /\ ~AllValid
    /\ Failed
    /\ err = "ValueError"
    /\ Len(data) >= 2

(***************************************************************************)
(* C9, as claimed.  Unsorted input is rejected: if a stream's dates        *)
(* decrease somewhere, the merge does not return a report.                 *)
(***************************************************************************)
C9_UnsortedRejected == ~InputsSorted => ~Returned

\* date.max is the date of some input record.
MaxDatePresent ==
    \E rec \in Range(threads) \cup Range(responses) \cup Range(comments) :
        KeyOf(rec) = date_max

(***************************************************************************)
(* C9, amended.  Unsorted input is not rejected: with a stream whose dates *)
(* decrease somewhere the merge returns whenever it would on sorted input. *)
(* It fails only with the ValueError of an invalid date or the IndexError  *)
(* of the exhausted thread stream selected on a head dated date.max;       *)
(* otherwise it returns all the records, each kind in its input order.     *)
(***************************************************************************)
C9_UnsortedNotChecked ==
    ~InputsSorted
        => /\ Returned
                => /\ Len(data) = Total
                   /\ Restrict(data, picks, "thread") = threads
                   /\ Restrict(data, picks, "response") = responses
                   /\ Restrict(data, picks, "comment") = comments
           /\ Failed
                => \/ err = "ValueError" /\ ~AllValid
                   \/ /\ err = "IndexError"
                      /\ t_index = Len(threads)
                      /\ MaxDatePresent
           /\ (AllValid /\ ~MaxDatePresent) => ~Failed

\* An unsorted input came back as a report whose dates are out of order.
C9_Witness ==
    /\ ~InputsSorted
    /\ Returned
    /\ ~NonDecreasing(data)
    /\ t_index > 0 /\ r_index > 0

(***************************************************************************)
(* C10.  Loop invariant and per-kind stability: in every reachable state   *)
(* each index lies between 0 and the length of its stream, data holds      *)
(* t_index + r_index + c_index records, and the records each branch        *)
(* appended are the first t_index threads, the first r_index responses     *)
(* and the first c_index comments in input order, sorted inputs or not; a  *)
(* returned output restricted to one kind is that kind's input stream.     *)
(***************************************************************************)
C10_LoopInvariant ==
    /\ t_index \in 0..Len(threads)
    /\ r_index \in 0..Len(responses)
    /\ c_index \in 0..Len(comments)
    /\ Len(data) = t_index + r_index + c_index
    /\ Len(picks) = Len(data)
    /\ Restrict(data, picks, "thread") = Prefix(threads, t_index)
    /\ Restrict(data, picks, "response") = Prefix(responses, r_index)
    /\ Restrict(data, picks, "comment") = Prefix(comments, c_index)
    /\ Returned
         => /\ Restrict(data, picks, "thread") = threads
            /\ Restrict(data, picks, "response") = responses
            /\ Restrict(data, picks, "comment") = comments

\* Mid-loop on unsorted input: records of two kinds emitted, one to go.
C10_Witness ==
    /\ pc = "loop"
    /\ ~InputsSorted
    /\ Cardinality({ picks[i] : i \in 1..Len(picks) }) = 2
    /\ LoopCond

====
